---- MODULE Spec2Model ----
(***************************************************************************)
(* State-machine model of src/translator.js: the file-selection handlers,  *)
(* the translate click handler (an async function, split into one action   *)
(* per stretch of code between two awaits) and the helpers it calls.       *)
(*                                                                         *)
(* Text.  A JavaScript string is modelled as a sequence of pieces, each a  *)
(* record [k, v].  A piece of kind "ch" is one character (or one opaque    *)
(* run of characters) of plain text.  The other kinds are the lexical      *)
(* pieces of the response body: "{", "}", ",", the newline, the blank, and *)
(* a member  "key":value  (k is the key, v the value as text).  String     *)
(* concatenation is sequence concatenation.  A chunk boundary may fall     *)
(* between any two pieces, so also inside a JSON record.                   *)
(*                                                                         *)
(* The "[timestamp] " prefix addLog puts before every entry (the wall      *)
(* clock) is left out of the log entries.                                  *)
(***************************************************************************)
EXTENDS Naturals, Sequences, FiniteSets

\* ------------------------------------------------------------------ bounds
MaxRuns == 2          \* clicks on the translate button that start a run
MaxSelections == 2    \* file-selection events (change or drop)
MaxClicks == 2        \* clicks on the export button, and on the download button
MaxCacheClicks == 1   \* clicks on the clear-cache button

\* -------------------------------------------------------------------- text
Ch(c) == [k |-> "ch", v |-> c]
Str(s) == <<Ch(s)>>
LB == [k |-> "{", v |-> ""]
RB == [k |-> "}", v |-> ""]
CM == [k |-> ",", v |-> ""]
NL == [k |-> "\n", v |-> ""]
SP == [k |-> " ", v |-> ""]
Fld(key, val) == [k |-> key, v |-> val]

Punct == {"{", "}", ",", "\n", " ", "ch"}

\* String.prototype.toLowerCase, on the characters the file names use.
LowerOf(c) ==
    CASE c = "R" -> "r"
      [] c = "P" -> "p"
      [] c = "D" -> "d"
      [] c = "F" -> "f"
      [] OTHER -> c

toLowerCase(s) == [i \in 1..Len(s) |-> [s[i] EXCEPT !.v = LowerOf(s[i].v)]]

\* String.prototype.endsWith
endsWith(s, suffix) ==
    /\ Len(suffix) <= Len(s)
    /\ SubSeq(s, Len(s) - Len(suffix) + 1, Len(s)) = suffix

\* String.prototype.trim, as a truth value: the line has a non-blank piece.
trimNonEmpty(line) == \E i \in 1..Len(line) : line[i] # SP

\* String.prototype.split('\n'): the pieces between the newlines, empty ones
\* included; a text without newline is one piece.
RECURSIVE split(_)
split(text) ==
    IF \A i \in 1..Len(text) : text[i] # NL
    THEN <<text>>
    ELSE LET n == CHOOSE i \in 1..Len(text) :
                     /\ text[i] = NL
                     /\ \A j \in 1..(i-1) : text[j] # NL
         IN <<SubSeq(text, 1, n-1)>> \o split(SubSeq(text, n+1, Len(text)))

\* text.split('\n').filter(line => line.trim())
updatesOf(text) == SelectSeq(split(text), trimNonEmpty)

\* ---------------------------------------------------------------- JSON.parse
\* The object a line denotes: ok is FALSE when JSON.parse throws.  Blanks
\* between pieces are insignificant; the text must be "{", members separated
\* by ",", "}"; of a repeated key the last member wins.
NoObj == [x \in {} |-> ""]

JSONparse(line) ==
    LET t == SelectSeq(line, LAMBDA p : p # SP)
        n == Len(t)
        body == IF n >= 2 THEN SubSeq(t, 2, n-1) ELSE <<>>
        m == Len(body)
        wellFormed ==
            /\ n >= 2
            /\ t[1] = LB
            /\ t[n] = RB
            /\ \/ m = 0
               \/ /\ m % 2 = 1
                  /\ \A i \in 1..m :
                        IF i % 2 = 1 THEN body[i].k \notin Punct
                                     ELSE body[i] = CM
        keys == {body[i].k : i \in {j \in 1..m : j % 2 = 1}}
        last(key) == CHOOSE i \in 1..m :
                        /\ i % 2 = 1
                        /\ body[i].k = key
                        /\ \A j \in (i+1)..m : ~(j % 2 = 1 /\ body[j].k = key)
    IN IF wellFormed
       THEN [ok |-> TRUE, obj |-> [key \in keys |-> body[last(key)].v]]
       ELSE [ok |-> FALSE, obj |-> NoObj]

\* data.key !== undefined
Defined(data, key) == key \in DOMAIN data
\* if (data.key): the member is present and its value is not the empty string.
Truthy(data, key) == key \in DOMAIN data /\ data[key] # ""

\* --------------------------------------------------------------- input sets
NameDocx == <<Ch("a"), Ch("."), Ch("d"), Ch("o"), Ch("c"), Ch("x")>>
NamePDF  == <<Ch("R"), Ch("."), Ch("P"), Ch("D"), Ch("F")>>
NameTxt  == <<Ch("r"), Ch("."), Ch("t"), Ch("x"), Ch("t")>>
NameNoDot == <<Ch("p"), Ch("d"), Ch("f")>>
NameBare == <<Ch("."), Ch("p"), Ch("d"), Ch("f")>>
NameDocxTxt == <<Ch("a"), Ch("."), Ch("d"), Ch("o"), Ch("c"), Ch("x"), Ch("."), Ch("t")>>
FileNames == {NameDocx, NamePDF, NameTxt, NameNoDot, NameBare, NameDocxTxt}
\* A FileList: no file, or one file (handleFiles reads only files[0]).
FileLists == {<<>>} \cup {<<n>> : n \in FileNames}
\* One accepted and one rejected name, for the runs of the whole page.
FewFileLists == {<<>>, <<NamePDF>>, <<NameTxt>>}

\* The response bodies the server may send.
\* {"progress":10,"message":"start"}\n{"progress":5\n{"summary":"ok","downloadUrl":"/x"}\n
StreamExample ==
    <<LB, Fld("progress", "10"), CM, Fld("message", "start"), RB, NL,
      LB, Fld("progress", "5"), NL,
      LB, Fld("summary", "ok"), CM, Fld("downloadUrl", "/x"), RB, NL>>
\* {"downloadUrl":"/x"}\n{"downloadUrl":"/y","progress":"50"}\n
StreamTwoUrls ==
    <<LB, Fld("downloadUrl", "/x"), RB, NL,
      LB, Fld("downloadUrl", "/y"), CM, Fld("progress", "50"), RB, NL>>
\* {"status":"Error"}\n \n{"apiCalls":3,"cached":1}   (no final newline)
StreamNoUrl ==
    <<LB, Fld("status", "Error"), RB, NL, SP, NL,
      LB, Fld("apiCalls", "3"), CM, Fld("cached", "1"), RB>>
Streams == {StreamExample, StreamTwoUrls, StreamNoUrl}
\* {"downloadUrl":"/x"}\n
StreamUrl == <<LB, Fld("downloadUrl", "/x"), RB, NL>>
\* {"status":"Error"}\n
StreamStatus == <<LB, Fld("status", "Error"), RB, NL>>
ShortStreams == {StreamUrl, StreamStatus}

\* What the fetch of /translate may do: a success response, a non-success
\* response (its status code), or a rejected promise (no response).
FetchResults == {"ok", "500", "reject"}

\* ------------------------------------------------------------------- state
RunIds == 1..MaxRuns

VARIABLES
    dom,             \* the DOM elements the script reads and writes
    currentSummary,  \* let currentSummary (line 21)
    runs,            \* the invocations of the translate click handler
    loggerDefined,   \* whether the page defines the global `logger` (line 191)
    selections,      \* number of file-selection events so far
    lastSelection,   \* history: what the most recent handleFiles call did
    location,        \* window.location.href, as set by the download button
    exports,         \* the invocations of the export click handler in progress
    caches,          \* the invocations of the clear-cache handler in progress
    clicks           \* number of clicks so far on the export, cache and download buttons

side == <<location, exports, caches, clicks>>
vars == <<dom, currentSummary, runs, loggerDefined, selections, lastSelection,
          location, exports, caches, clicks>>

NoRun ==
    [pc |-> "none", file |-> <<>>, stream |-> <<>>, pos |-> 0,
     translationComplete |-> FALSE, summaryGenerated |-> FALSE,
     finalDownloadUrl |-> "",   \* null; the code only ever tests its truth
     handed |-> <<>>,            \* history: the lines given to JSON.parse
     outcome |-> "none"]         \* history: the exit path taken

Init ==
    /\ dom \in [fileInputFiles : {<<>>},
                fileName : {<<>>},
                translateBtnDisabled : BOOLEAN,
                progressSectionShown : {FALSE},
                progressBar : {"0"},
                status : {""},
                apiCalls : {"0"},
                cached : {"0"},
                log : {<<>>},
                summaryDisplay : {""},
                summarySectionShown : {FALSE},
                summaryEditor : {""},
                summaryDisplayShown : {TRUE},
                summaryEditorShown : {FALSE},
                editSummaryBtnShown : {TRUE},
                saveSummaryBtnShown : {FALSE},
                downloadBtn : {<<>>}]
    /\ currentSummary = ""
    /\ runs = [r \in RunIds |-> NoRun]
    /\ loggerDefined \in BOOLEAN
    /\ selections = 0
    /\ lastSelection = "none"
    /\ location = ""
    /\ exports = <<>>
    /\ caches = <<>>
    /\ clicks = [export |-> 0, cache |-> 0, download |-> 0]

\* The new entry put before the others.
addLogPrepends(d, message) == [d EXCEPT !.log = <<message>> \o @]

\* ----------------------------------------------------------------- helpers
\* addLog (lines 272-279): append one entry at the end of the log container.
addLog(d, message) == [d EXCEPT !.log = Append(@, message)]

\* The file-type test without the lowercasing.
acceptedNameCaseSensitive(name) ==
    \/ endsWith(name, <<Ch("."), Ch("d"), Ch("o"), Ch("c"), Ch("x")>>)
    \/ endsWith(name, <<Ch("."), Ch("p"), Ch("d"), Ch("f")>>)

\* The file-type test of handleFiles (line 115).
acceptedName(name) ==
    \/ endsWith(toLowerCase(name), <<Ch("."), Ch("d"), Ch("o"), Ch("c"), Ch("x")>>)
    \/ endsWith(toLowerCase(name), <<Ch("."), Ch("p"), Ch("d"), Ch("f")>>)

\* A rejected selection shown in the file name only, with no log entry.
handleFilesSilentReject(d, files) ==
    IF Len(files) > 0
    THEN LET name == files[1]
         IN IF acceptedName(name)
            THEN addLog([d EXCEPT !.fileName = name,
                                  !.translateBtnDisabled = FALSE],
                        Str("File selected: ") \o name)
            ELSE [d EXCEPT !.fileName = Str("Please select a DOCX or PDF file"),
                           !.translateBtnDisabled = TRUE]
    ELSE d

\* handleFiles (lines 112-125)
handleFiles(d, files) ==
    IF Len(files) > 0
    THEN LET name == files[1]
         IN IF acceptedName(name)
            THEN addLog([d EXCEPT !.fileName = name,
                                  !.translateBtnDisabled = FALSE],
                        Str("File selected: ") \o name)
            ELSE addLog([d EXCEPT !.fileName = Str("Please select a DOCX or PDF file"),
                                  !.translateBtnDisabled = TRUE],
                        Str("Error: Invalid file type. Please select a DOCX or PDF file."))
    ELSE d

\* handleProgressUpdate (lines 251-270)
handleProgressUpdate(d, data) ==
    LET d1 == IF Defined(data, "progress")
              THEN [d EXCEPT !.progressBar = data["progress"]] ELSE d
        d2 == IF Truthy(data, "status")
              THEN [d1 EXCEPT !.status = data["status"]] ELSE d1
        d3 == IF Defined(data, "apiCalls")
              THEN [d2 EXCEPT !.apiCalls = data["apiCalls"]] ELSE d2
        d4 == IF Defined(data, "cached")
              THEN [d3 EXCEPT !.cached = data["cached"]] ELSE d3
    IN IF Truthy(data, "message") THEN addLog(d4, Str(data["message"])) ELSE d4

\* A new button created on every call.
addDownloadButtonAlwaysCreates(d, downloadUrl) ==
    addLog([d EXCEPT !.downloadBtn = <<downloadUrl>> \o @],
           Str("Download ready! Click the download button to save the translated document."))

\* addDownloadButton (lines 282-301).  dom.downloadBtn lists the elements
\* with id downloadBtn, each as the URL its click handler navigates to
\* (getElementById finds the first): a button is created and prepended if
\* there is none, its click handler is (re)bound to downloadUrl, one entry
\* is logged.
addDownloadButton(d, downloadUrl) ==
    LET btns == IF d.downloadBtn = <<>> THEN <<"">> ELSE d.downloadBtn
    IN addLog([d EXCEPT !.downloadBtn = [btns EXCEPT ![1] = downloadUrl]],
              Str("Download ready! Click the download button to save the translated document."))

\* ------------------------------------------------- translate click handler
\* The handler's per-line work reads and writes the DOM, currentSummary and
\* the handler's locals; they are passed together as s = [dom, cs, run].

\* The first value kept, later ones dropped.
recordDownloadUrlOnce(run, url) ==
    IF run.finalDownloadUrl # "" THEN run
    ELSE [run EXCEPT !.finalDownloadUrl = url, !.translationComplete = TRUE]

\* Lines 189-190: finalDownloadUrl = data.downloadUrl; translationComplete = true
recordDownloadUrl(run, url) ==
    [run EXCEPT !.finalDownloadUrl = url, !.translationComplete = TRUE]

\* The per-line catch also raising the error status.
perLineCatchSetsError(s, update) ==
    [s EXCEPT !.dom = addLog([@ EXCEPT !.status = "Error"],
                             Str("Non-JSON update: ") \o update)]

\* Line 204, the per-line catch: addLog(`Non-JSON update: ${update}`)
perLineCatch(s, update) ==
    [s EXCEPT !.dom = addLog(@, Str("Non-JSON update: ") \o update)]

\* A streamed summary also put into the editor, closing it.
applySummaryClosesEditor(s, data) ==
    IF Truthy(data, "summary")
    THEN [s EXCEPT !.run.summaryGenerated = TRUE,
                   !.cs = data["summary"],
                   !.dom = addLog([@ EXCEPT !.summaryDisplay = data["summary"],
                                            !.summaryEditor = data["summary"],
                                            !.summaryEditorShown = FALSE,
                                            !.summaryDisplayShown = TRUE,
                                            !.saveSummaryBtnShown = FALSE,
                                            !.editSummaryBtnShown = TRUE,
                                            !.summarySectionShown = TRUE],
                                  Str("Document summary generated and displayed"))]
    ELSE s

\* Lines 194-202: if (data.summary) { ... }
applySummary(s, data) ==
    IF Truthy(data, "summary")
    THEN [s EXCEPT !.run.summaryGenerated = TRUE,
                   !.cs = data["summary"],
                   !.dom = addLog([@ EXCEPT !.summaryDisplay = data["summary"],
                                            !.summarySectionShown = TRUE],
                                  Str("Document summary generated and displayed"))]
    ELSE s

\* Lines 183-206, the forEach callback on one line.  `logger` is declared
\* nowhere in the script: where the page defines no such global, line 191
\* throws a ReferenceError, which the per-line catch handles, and lines
\* 194-202 are not reached.
processUpdate(s, update) ==
    LET parsed == JSONparse(update)
        data == parsed.obj
        s0 == [s EXCEPT !.run.handed = Append(@, update)]
        s1 == [s0 EXCEPT !.dom = handleProgressUpdate(@, data)]
    IN IF ~parsed.ok
       THEN perLineCatch(s0, update)
       ELSE IF Truthy(data, "downloadUrl")
            THEN LET s2 == [s1 EXCEPT !.run = recordDownloadUrl(@, data["downloadUrl"])]
                 IN IF loggerDefined
                    THEN applySummary(s2, data)
                    ELSE perLineCatch(s2, update)
            ELSE applySummary(s1, data)

\* updates.forEach(...)
RECURSIVE forEachUpdate(_, _)
forEachUpdate(s, updates) ==
    IF updates = <<>> THEN s
    ELSE forEachUpdate(processUpdate(s, Head(updates)), Tail(updates))

\* The re-enabling left out.
finallyBlockOmitted(d) == d

\* Line 226, the finally block.
finallyBlock(d) == [d EXCEPT !.translateBtnDisabled = FALSE]

\* The catch block logging the error without raising the error status.
catchBlockLogOnly(d, message) ==
    addLog(d, Str("Error during translation: ") \o message)

\* Lines 221-224, the catch block.
catchBlock(d, message) ==
    addLog([d EXCEPT !.status = "Error"],
           Str("Error during translation: ") \o message)

\* The completion test on the summary flag instead of the completion flag.
isCompleteBySummary(run) == run.summaryGenerated /\ run.finalDownloadUrl # ""

\* Line 209: translationComplete && finalDownloadUrl
isComplete(run) == run.translationComplete /\ run.finalDownloadUrl # ""

\* The incomplete status set whatever the status was.
afterLoopOverwritesStatus(d, run) ==
    IF isComplete(run)
    THEN addLog(addDownloadButton([d EXCEPT !.status = "Translation completed",
                                            !.progressBar = "100"],
                                  run.finalDownloadUrl),
                Str("Translation process finished successfully. Download ready."))
    ELSE addLog([d EXCEPT !.status = "Translation incomplete or failed"],
                Str("Translation process finished with errors or was incomplete."))

\* Lines 209-220, after the read loop.
afterLoop(d, run) ==
    IF isComplete(run)
    THEN addLog(addDownloadButton([d EXCEPT !.status = "Translation completed",
                                            !.progressBar = "100"],
                                  run.finalDownloadUrl),
                Str("Translation process finished successfully. Download ready."))
    ELSE addLog(IF d.status # "Error"
                THEN [d EXCEPT !.status = "Translation incomplete or failed"]
                ELSE d,
                Str("Translation process finished with errors or was incomplete."))

\* ----------------------------------------------------------------- actions
selectionResult(files, before) ==
    IF Len(files) = 0 THEN before
    ELSE IF acceptedName(files[1]) THEN "accepted" ELSE "rejected"

\* Lines 108-110: the user's choice replaces fileInput.files, then the
\* change handler runs.
FileInputChange(files) ==
    /\ selections < MaxSelections
    /\ dom' = handleFiles([dom EXCEPT !.fileInputFiles = files], files)
    /\ lastSelection' = selectionResult(files, lastSelection)
    /\ selections' = selections + 1
    /\ UNCHANGED <<currentSummary, runs, loggerDefined, side>>

\* Lines 101-105: the dropped files go to handleFiles; fileInput.files is
\* not touched.
handleDrop(files) ==
    /\ selections < MaxSelections
    /\ dom' = handleFiles(dom, files)
    /\ lastSelection' = selectionResult(files, lastSelection)
    /\ selections' = selections + 1
    /\ UNCHANGED <<currentSummary, runs, loggerDefined, side>>

\* Lines 128-157: a click on the translate button (a disabled button
\* dispatches no click event), up to the await of fetch.
TranslateClick ==
    /\ ~dom.translateBtnDisabled
    /\ \E r \in RunIds : runs[r].pc = "none"
    /\ IF dom.fileInputFiles = <<>>
       THEN UNCHANGED vars
       ELSE LET r == CHOOSE i \in RunIds :
                        /\ runs[i].pc = "none"
                        /\ \A j \in RunIds : runs[j].pc = "none" => i <= j
                d1 == [dom EXCEPT !.progressSectionShown = TRUE,
                                  !.translateBtnDisabled = TRUE,
                                  !.status = "Translating...",
                                  !.progressBar = "0",
                                  !.log = <<>>]
            IN /\ dom' = addLog(addLog(d1, Str("Starting translation process...")),
                                Str("Sending file to server..."))
               /\ runs' = [runs EXCEPT ![r] = [NoRun EXCEPT !.pc = "fetch",
                                                            !.file = dom.fileInputFiles[1]]]
               /\ UNCHANGED <<currentSummary, loggerDefined, selections, lastSelection, side>>

\* Lines 154-173: the fetch settles.  A non-success response and a rejected
\* fetch go to the catch block; otherwise the locals are set up and the
\* first read is awaited.
FetchSettled(r, res, body) ==
    /\ runs[r].pc = "fetch"
    /\ IF res = "ok"
       THEN /\ dom' = addLog(dom, Str("Connected to server stream. Waiting for updates..."))
            /\ runs' = [runs EXCEPT ![r] = [@ EXCEPT !.pc = "read", !.stream = body]]
       ELSE /\ dom' = finallyBlock(catchBlock(dom,
                        IF res = "reject" THEN Str("Failed to fetch")
                        ELSE Str("Translation failed with status: ") \o Str(res)))
            /\ runs' = [runs EXCEPT ![r] = [@ EXCEPT !.pc = "done", !.outcome = "Failed"]]
    /\ UNCHANGED <<currentSummary, loggerDefined, selections, lastSelection, side>>

\* Lines 173-207: a read delivers the next n pieces of the body as one chunk.
ReadChunk(r, n) ==
    /\ runs[r].pc = "read"
    /\ n >= 1
    /\ runs[r].pos + n <= Len(runs[r].stream)
    /\ LET run == runs[r]
           text == SubSeq(run.stream, run.pos + 1, run.pos + n)
           s == forEachUpdate([dom |-> dom, cs |-> currentSummary,
                               run |-> [run EXCEPT !.pos = @ + n]],
                              updatesOf(text))
       IN /\ dom' = s.dom
          /\ currentSummary' = s.cs
          /\ runs' = [runs EXCEPT ![r] = s.run]
    /\ UNCHANGED <<loggerDefined, selections, lastSelection, side>>

\* Lines 173-177, 209-220, 226: a read reports the end of the body.
ReadDone(r) ==
    /\ runs[r].pc = "read"
    /\ runs[r].pos = Len(runs[r].stream)
    /\ dom' = finallyBlock(afterLoop(addLog(dom, Str("Stream complete")), runs[r]))
    /\ runs' = [runs EXCEPT ![r] = [@ EXCEPT !.pc = "done",
                    !.outcome = IF isComplete(runs[r]) THEN "Completed" ELSE "Incomplete"]]
    /\ UNCHANGED <<currentSummary, loggerDefined, selections, lastSelection, side>>

\* Lines 173, 221-226: a read rejects (transport error).
ReadThrow(r) ==
    /\ runs[r].pc = "read"
    /\ dom' = finallyBlock(catchBlock(dom, Str("network error")))
    /\ runs' = [runs EXCEPT ![r] = [@ EXCEPT !.pc = "done", !.outcome = "Failed"]]
    /\ UNCHANGED <<currentSummary, loggerDefined, selections, lastSelection, side>>

\* No invocation of the click handler is between its start and its end.
Idle == \A r \in RunIds : runs[r].pc \in {"none", "done"}

\* The whole page: selections and clicks at any time, short response bodies.
Next ==
    \/ \E files \in FewFileLists : FileInputChange(files)
    \/ \E files \in FewFileLists : handleDrop(files)
    \/ TranslateClick
    \/ \E r \in RunIds, res \in FetchResults, body \in ShortStreams :
          FetchSettled(r, res, body)
    \/ \E r \in RunIds : \E n \in 1..Len(runs[r].stream) : ReadChunk(r, n)
    \/ \E r \in RunIds : ReadDone(r)
    \/ \E r \in RunIds : ReadThrow(r)

Spec == Init /\ [][Next]_vars

\* The stream consumer on the long response bodies, under every chunking of
\* them: one run, and the user selects files only while no run is active.
NoRunYet == \A r \in RunIds : runs[r].pc = "none"

NextStream ==
    \/ Idle /\ \E files \in FewFileLists : FileInputChange(files)
    \/ Idle /\ \E files \in FewFileLists : handleDrop(files)
    \/ NoRunYet /\ TranslateClick
    \/ \E r \in RunIds, res \in FetchResults, body \in Streams :
          FetchSettled(r, res, body)
    \/ \E r \in RunIds : \E n \in 1..Len(runs[r].stream) : ReadChunk(r, n)
    \/ \E r \in RunIds : ReadDone(r)
    \/ \E r \in RunIds : ReadThrow(r)

SpecStream == Init /\ [][NextStream]_vars

\* The file-selection handlers alone, on every file name.
NextFiles ==
    \/ \E files \in FileLists : FileInputChange(files)
    \/ \E files \in FileLists : handleDrop(files)

SpecFiles == Init /\ [][NextFiles]_vars

\* ------------------------------------------- summary, cache, download
\* The summary buttons can be clicked once the summary section is shown
\* (line 198); the page starts with the summary display and the edit button
\* shown, the editor and the save button hidden.

\* Lines 24-30, the edit click handler.
editSummary(d) ==
    [d EXCEPT !.summaryEditor = d.summaryDisplay,
              !.summaryDisplayShown = FALSE,
              !.summaryEditorShown = TRUE,
              !.editSummaryBtnShown = FALSE,
              !.saveSummaryBtnShown = TRUE]

\* The displayed text committed instead of the editor's.
savedTextFromDisplay(d) == d.summaryDisplay

\* Line 33: currentSummary = summaryEditor.value
savedText(d) == d.summaryEditor

\* Lines 34-38, the rest of the save click handler.
saveSummary(d) ==
    [d EXCEPT !.summaryDisplay = savedText(d),
              !.summaryEditorShown = FALSE,
              !.summaryDisplayShown = TRUE,
              !.saveSummaryBtnShown = FALSE,
              !.editSummaryBtnShown = TRUE]

\* The editor's text sent while the editor is open.
exportBodyFromEditor(d, cs) == IF d.summaryEditorShown THEN d.summaryEditor ELSE cs

\* Line 48: body: JSON.stringify({ summary: currentSummary })
exportBody(d, cs) == cs

\* A sequence without its i-th element.
Remove(seq, i) == SubSeq(seq, 1, i - 1) \o SubSeq(seq, i + 1, Len(seq))

\* The texts the user may type into the editor.
Drafts == {"draft"}

EditSummaryClick ==
    /\ dom.summarySectionShown
    /\ dom.editSummaryBtnShown
    /\ dom' = editSummary(dom)
    /\ UNCHANGED <<currentSummary, runs, loggerDefined, selections, lastSelection, side>>

\* The user types into the editor (summaryEditor.value, read at line 33).
EditorInput(text) ==
    /\ dom.summarySectionShown
    /\ dom.summaryEditorShown
    /\ text # dom.summaryEditor
    /\ dom' = [dom EXCEPT !.summaryEditor = text]
    /\ UNCHANGED <<currentSummary, runs, loggerDefined, selections, lastSelection, side>>

\* Lines 32-39
SaveSummaryClick ==
    /\ dom.summarySectionShown
    /\ dom.saveSummaryBtnShown
    /\ currentSummary' = savedText(dom)
    /\ dom' = saveSummary(dom)
    /\ UNCHANGED <<runs, loggerDefined, selections, lastSelection, side>>

\* Lines 41-49: the export click, up to the await of fetch.
ExportSummaryClick ==
    /\ dom.summarySectionShown
    /\ clicks.export < MaxClicks
    /\ exports' = Append(exports, [pc |-> "fetch", body |-> exportBody(dom, currentSummary)])
    /\ clicks' = [clicks EXCEPT !.export = @ + 1]
    /\ UNCHANGED <<dom, currentSummary, runs, loggerDefined, selections, lastSelection,
                   location, caches>>

\* Lines 43-56, 67-69: the export's fetch settles.
ExportFetchSettled(i, res) ==
    /\ i \in 1..Len(exports)
    /\ exports[i].pc = "fetch"
    /\ IF res = "ok"
       THEN /\ exports' = [exports EXCEPT ![i].pc = "blob"]
            /\ UNCHANGED dom
       ELSE /\ exports' = Remove(exports, i)
            /\ dom' = addLog(dom, Str("Error exporting summary: ") \o
                         (IF res = "reject" THEN Str("Failed to fetch")
                          ELSE Str("Failed to export summary")))
    /\ UNCHANGED <<currentSummary, runs, loggerDefined, selections, lastSelection,
                   location, caches, clicks>>

\* Lines 56-69: response.blob() settles; on success the file is handed to
\* the browser through a temporary link and the success is logged.
ExportBlobSettled(i, ok) ==
    /\ i \in 1..Len(exports)
    /\ exports[i].pc = "blob"
    /\ exports' = Remove(exports, i)
    /\ dom' = IF ok THEN addLog(dom, Str("Summary exported as DOCX successfully"))
              ELSE addLog(dom, Str("Error exporting summary: ") \o Str("network error"))
    /\ UNCHANGED <<currentSummary, runs, loggerDefined, selections, lastSelection,
                   location, caches, clicks>>

\* Lines 231-235: the clear-cache click, up to the await of fetch.
ClearCacheClick ==
    /\ clicks.cache < MaxCacheClicks
    /\ caches' = Append(caches, "fetch")
    /\ clicks' = [clicks EXCEPT !.cache = @ + 1]
    /\ UNCHANGED <<dom, currentSummary, runs, loggerDefined, selections, lastSelection,
                   location, exports>>

\* Lines 233-241, 245-247
ClearCacheFetchSettled(i, res) ==
    /\ i \in 1..Len(caches)
    /\ caches[i] = "fetch"
    /\ IF res = "ok"
       THEN /\ caches' = [caches EXCEPT ![i] = "json"]
            /\ UNCHANGED dom
       ELSE /\ caches' = Remove(caches, i)
            /\ dom' = addLog(dom, Str("Error clearing cache: ") \o
                         (IF res = "reject" THEN Str("Failed to fetch")
                          ELSE Str("Failed to clear cache")))
    /\ UNCHANGED <<currentSummary, runs, loggerDefined, selections, lastSelection,
                   location, exports, clicks>>

\* Lines 241-247: response.json() settles.
ClearCacheJsonSettled(i, ok) ==
    /\ i \in 1..Len(caches)
    /\ caches[i] = "json"
    /\ caches' = Remove(caches, i)
    /\ dom' = IF ok
              THEN addLog([dom EXCEPT !.apiCalls = "0", !.cached = "0"],
                          Str("Cache cleared: ") \o Str("Cache cleared"))
              ELSE addLog(dom, Str("Error clearing cache: ") \o Str("Unexpected token"))
    /\ UNCHANGED <<currentSummary, runs, loggerDefined, selections, lastSelection,
                   location, exports, clicks>>

\* Lines 295-298: a click on the (first) download button.
DownloadClick ==
    /\ dom.downloadBtn # <<>>
    /\ clicks.download < MaxClicks
    /\ location' = dom.downloadBtn[1]
    /\ dom' = addLog(dom, Str("Downloading translated document..."))
    /\ clicks' = [clicks EXCEPT !.download = @ + 1]
    /\ UNCHANGED <<currentSummary, runs, loggerDefined, selections, lastSelection,
                   exports, caches>>

SideResults == {"ok", "notok", "reject"}

\* {"summary":"ok"}\n{"summary":"v2"}\n
StreamSummaries ==
    <<LB, Fld("summary", "ok"), RB, NL, LB, Fld("summary", "v2"), RB, NL>>

\* The summary editor and the export beside one run that streams summaries;
\* the file is chosen before the run.
NextSummary ==
    \/ NoRunYet /\ \E files \in {<<NamePDF>>} : FileInputChange(files)
    \/ NoRunYet /\ TranslateClick
    \/ \E r \in RunIds, res \in FetchResults : FetchSettled(r, res, StreamSummaries)
    \/ \E r \in RunIds : \E n \in 1..Len(runs[r].stream) : ReadChunk(r, n)
    \/ \E r \in RunIds : ReadDone(r)
    \/ \E r \in RunIds : ReadThrow(r)
    \/ EditSummaryClick
    \/ \E text \in Drafts : EditorInput(text)
    \/ SaveSummaryClick
    \/ ExportSummaryClick
    \/ \E i \in 1..MaxClicks, res \in SideResults : ExportFetchSettled(i, res)
    \/ \E i \in 1..MaxClicks, ok \in BOOLEAN : ExportBlobSettled(i, ok)

SpecSummary == Init /\ [][NextSummary]_vars

\* {"downloadUrl":"/y"}   (no final newline)
StreamUrlY == <<LB, Fld("downloadUrl", "/y"), RB>>
RunStreams == {StreamUrl, StreamUrlY}

\* Runs one after the other (files are selected only while no run is
\* active), with the clear-cache and the download button.
NextRuns ==
    \/ Idle /\ \E files \in FewFileLists : FileInputChange(files)
    \/ Idle /\ \E files \in FewFileLists : handleDrop(files)
    \/ TranslateClick
    \/ \E r \in RunIds, res \in FetchResults, body \in RunStreams :
          FetchSettled(r, res, body)
    \/ \E r \in RunIds : \E n \in 1..Len(runs[r].stream) : ReadChunk(r, n)
    \/ \E r \in RunIds : ReadDone(r)
    \/ \E r \in RunIds : ReadThrow(r)
    \/ ClearCacheClick
    \/ \E i \in 1..MaxCacheClicks, res \in SideResults : ClearCacheFetchSettled(i, res)
    \/ \E i \in 1..MaxCacheClicks, ok \in BOOLEAN : ClearCacheJsonSettled(i, ok)
    \/ DownloadClick

SpecRuns == Init /\ [][NextRuns]_vars

\* ------------------------------------------------------------------ claims
Active(r) == runs[r].pc \in {"fetch", "read"}
Ended(r) == runs[r].outcome \in {"Completed", "Incomplete"}
IsPrefix(a, b) == Len(a) <= Len(b) /\ SubSeq(b, 1, Len(a)) = a

\* C1: whatever the chunking of a response body, the lines handed to
\* JSON.parse are the complete newline-delimited non-blank lines of the whole
\* body: at every moment a prefix of them, and all of them once the stream
\* has ended.
C1_LinesIndependentOfChunking ==
    \A r \in RunIds :
        /\ IsPrefix(runs[r].handed, updatesOf(runs[r].stream))
        /\ Ended(r) => runs[r].handed = updatesOf(runs[r].stream)

\* C2: the step that ends a run leaves the translate button enabled,
\* whichever way the run ends.
C2_SubmitEnabledAtRunEnd ==
    [][\A r \in RunIds :
          (Active(r) /\ runs'[r].pc = "done") => ~dom'.translateBtnDisabled]_vars

\* A run has completed and another has failed in the middle of its stream.
C2_Witness ==
    \E r1, r2 \in RunIds :
        /\ runs[r1].outcome = "Completed"
        /\ runs[r2].outcome = "Failed"
        /\ runs[r2].pos > 0
        /\ ~dom.translateBtnDisabled

\* The downloadUrl values of the records among `lines`, in order.
RECURSIVE receivedUrls(_)
receivedUrls(lines) ==
    IF lines = <<>> THEN <<>>
    ELSE LET p == JSONparse(Head(lines))
         IN (IF p.ok /\ Truthy(p.obj, "downloadUrl")
             THEN <<p.obj["downloadUrl"]>> ELSE <<>>)
            \o receivedUrls(Tail(lines))

ChunkStep(r) == runs[r].pc = "read" /\ runs'[r].pos > runs[r].pos
chunkLines(r) == updatesOf(SubSeq(runs[r].stream, runs[r].pos + 1, runs'[r].pos))
malformed(line) == ~JSONparse(line).ok
nonJsonEntry(line) == Str("Non-JSON update: ") \o line

\* C4: a chunk never ends the run and all its lines are handed to JSON.parse,
\* those after a malformed line too; a chunk of malformed lines only appends
\* one log entry with the raw text per line; a well-formed line with a
\* progress value that ends a chunk is applied whatever precedes it.
C4_MalformedLineOnlyLogged ==
    [][\A r \in RunIds : ChunkStep(r) =>
          LET U == chunkLines(r)
              n == Len(U)
          IN /\ runs'[r].pc = "read"
             /\ runs'[r].handed = runs[r].handed \o U
             /\ (\A i \in 1..n : malformed(U[i])) =>
                   /\ dom' = [dom EXCEPT !.log = @ \o [i \in 1..n |-> nonJsonEntry(U[i])]]
                   /\ currentSummary' = currentSummary
                   /\ runs'[r] = [runs[r] EXCEPT !.pos = runs'[r].pos,
                                                 !.handed = runs'[r].handed]
             /\ (n > 0 /\ ~malformed(U[n]) /\ Defined(JSONparse(U[n]).obj, "progress")) =>
                   dom'.progressBar = JSONparse(U[n]).obj["progress"]]_vars

\* The malformed second line of the example body was logged, the status is
\* still that of the run's start, and the run went on to complete.
C4_Witness ==
    \E r \in RunIds :
        /\ runs[r].stream = StreamExample
        /\ runs[r].handed = updatesOf(StreamExample)
        /\ runs[r].outcome = "Completed"
        /\ \E i \in 1..Len(dom.log) : dom.log[i] = nonJsonEntry(<<LB, Fld("progress", "5")>>)

\* C5: a chunk that is one well-formed record applies each field the record
\* carries, and logs no "Non-JSON update" entry for it.
C5_EveryPresentFieldApplied ==
    [][\A r \in RunIds :
          (ChunkStep(r) /\ Len(chunkLines(r)) = 1 /\ ~malformed(chunkLines(r)[1])) =>
              LET line == chunkLines(r)[1]
                  data == JSONparse(line).obj
              IN /\ Defined(data, "progress") => dom'.progressBar = data["progress"]
                 /\ Defined(data, "status") => dom'.status = data["status"]
                 /\ Defined(data, "apiCalls") => dom'.apiCalls = data["apiCalls"]
                 /\ Defined(data, "cached") => dom'.cached = data["cached"]
                 /\ Defined(data, "message") =>
                       \E i \in (Len(dom.log)+1)..Len(dom'.log) :
                           dom'.log[i] = Str(data["message"])
                 /\ Defined(data, "summary") =>
                       /\ currentSummary' = data["summary"]
                       /\ dom'.summaryDisplay = data["summary"]
                 /\ Defined(data, "downloadUrl") =>
                       runs'[r].finalDownloadUrl = data["downloadUrl"]
                 /\ \A i \in (Len(dom.log)+1)..Len(dom'.log) :
                       dom'.log[i] # nonJsonEntry(line)]_vars

\* C6: the step that ends a run ends it Completed exactly when the read
\* reported the end of the stream and a record with a downloadUrl was handed
\* over during the run; then the status is the completed text, the progress
\* bar is at 100% and the download button is bound to the run's URL.
C6_CompletedIffStreamEndedWithUrl ==
    [][\A r \in RunIds : (Active(r) /\ runs'[r].pc = "done") =>
          LET u == receivedUrls(runs[r].handed)
          IN /\ runs'[r].outcome = "Completed" <=> (ReadDone(r) /\ u # <<>>)
             /\ runs'[r].outcome = "Completed" =>
                   /\ dom'.status = "Translation completed"
                   /\ dom'.progressBar = "100"
                   /\ dom'.downloadBtn = <<runs[r].finalDownloadUrl>>
                   /\ runs[r].finalDownloadUrl = u[Len(u)]]_vars

\* A run completed although the last progress value it received was 50.
C6_Witness ==
    \E r \in RunIds :
        /\ runs[r].outcome = "Completed"
        /\ runs[r].stream = StreamTwoUrls
        /\ runs[r].handed = updatesOf(StreamTwoUrls)
        /\ dom.progressBar = "100"
        /\ dom.status = "Translation completed"

\* C7: at no time are two runs active (between the click that started them
\* and their end) at once.
C7_AtMostOneActiveRun == Cardinality({r \in RunIds : Active(r)}) <= 1

\* C8: with no run active, the translate button is disabled whenever the
\* most recent file selection was rejected.
C8_RejectedSelectionKeepsDisabled ==
    (Idle /\ lastSelection = "rejected") => dom.translateBtnDisabled

\* The extension of a file name: the characters after its last ".",
\* lowercased; no extension when the name has no ".".
hasDot(name) == \E i \in 1..Len(name) : name[i] = Ch(".")
extension(name) ==
    LET d == CHOOSE i \in 1..Len(name) :
                 /\ name[i] = Ch(".")
                 /\ \A j \in (i+1)..Len(name) : name[j] # Ch(".")
    IN toLowerCase(SubSeq(name, d + 1, Len(name)))
hasAcceptedExtension(name) ==
    /\ hasDot(name)
    /\ extension(name) \in {<<Ch("d"), Ch("o"), Ch("c"), Ch("x")>>,
                            <<Ch("p"), Ch("d"), Ch("f")>>}

\* C9: a selection event with no file leaves the file-name display, the
\* translate button and the log as they were; one whose first file has the
\* extension docx or pdf (in any case) enables the button and appends the
\* acceptance entry; any other disables it and appends the rejection entry.
C9_HandleFilesAcceptsDocxPdf ==
    [][\A files \in FileLists :
          (FileInputChange(files) \/ handleDrop(files)) =>
              IF files = <<>>
              THEN /\ dom'.fileName = dom.fileName
                   /\ dom'.translateBtnDisabled = dom.translateBtnDisabled
                   /\ dom'.log = dom.log
              ELSE IF hasAcceptedExtension(files[1])
                   THEN /\ ~dom'.translateBtnDisabled
                        /\ dom'.fileName = files[1]
                        /\ dom'.log = Append(dom.log, Str("File selected: ") \o files[1])
                   ELSE /\ dom'.translateBtnDisabled
                        /\ dom'.log = Append(dom.log,
                              Str("Error: Invalid file type. Please select a DOCX or PDF file."))]_vars

\* R.PDF was accepted, then a name without extension was rejected.
C9_Witness ==
    /\ dom.log = <<Str("File selected: ") \o NamePDF,
                   Str("Error: Invalid file type. Please select a DOCX or PDF file.")>>
    /\ dom.fileInputFiles = <<NameNoDot>>
    /\ dom.translateBtnDisabled

\* C10: a non-success response, a rejected fetch and a rejected read end the
\* run as Failed: the status becomes "Error", exactly one entry, carrying the
\* error detail, is added to the log, nothing else of the page changes but
\* the re-enabled button, and the run handles no line afterwards, whether
\* or not it had received a downloadUrl.
C10_FailureEndsRunWithError ==
    [][\A r \in RunIds :
          /\ (\/ \E res \in FetchResults \ {"ok"}, body \in Streams \cup ShortStreams :
                    FetchSettled(r, res, body)
              \/ ReadThrow(r)) =>
                /\ runs'[r].pc = "done"
                /\ runs'[r].outcome = "Failed"
                /\ runs'[r].handed = runs[r].handed
                /\ \E detail \in {Str("network error"), Str("Failed to fetch"),
                                  Str("Translation failed with status: ") \o Str("500")} :
                      dom' = [dom EXCEPT !.status = "Error",
                                         !.translateBtnDisabled = FALSE,
                                         !.log = Append(@, Str("Error during translation: ") \o detail)]
                /\ currentSummary' = currentSummary
          /\ runs[r].pc = "done" => runs'[r] = runs[r]]_vars

\* A read failed after the run had received its downloadUrl.
C10_Witness ==
    \E r \in RunIds :
        /\ runs[r].outcome = "Failed"
        /\ runs[r].translationComplete
        /\ dom.status = "Error"
        /\ dom.downloadBtn = <<>>

\* C11: when the read reports the end of the body and the run has received
\* no downloadUrl, the run ends as Incomplete (not Failed): the status
\* becomes "Translation incomplete or failed" unless it is "Error", which is
\* left as it is; in both cases the log gains "Stream complete" and one
\* incomplete entry, which is not the entry of a failure.
C11_IncompleteKeepsErrorStatus ==
    [][\A r \in RunIds :
          (ReadDone(r) /\ receivedUrls(runs[r].handed) = <<>>) =>
             /\ runs'[r].outcome = "Incomplete"
             /\ dom'.status = IF dom.status = "Error" THEN "Error"
                              ELSE "Translation incomplete or failed"
             /\ dom'.log = dom.log \o
                   <<Str("Stream complete"),
                     Str("Translation process finished with errors or was incomplete.")>>
             /\ dom'.downloadBtn = dom.downloadBtn]_vars

\* A run ended as Incomplete while the status, set by a record, was "Error".
C11_Witness ==
    \E r \in RunIds :
        /\ runs[r].outcome = "Incomplete"
        /\ dom.status = "Error"
        /\ dom.log # <<>>
        /\ dom.log[Len(dom.log)] =
              Str("Translation process finished with errors or was incomplete.")

\* The failure paths, as steps.
RejectedSelection ==
    \E files \in FileLists :
        /\ Len(files) > 0
        /\ ~acceptedName(files[1])
        /\ FileInputChange(files) \/ handleDrop(files)
FailedSubmission(r) ==
    \E res \in FetchResults \ {"ok"}, body \in Streams : FetchSettled(r, res, body)
MalformedRecord(r) == ChunkStep(r) /\ \E i \in 1..Len(chunkLines(r)) : malformed(chunkLines(r)[i])
OnlyMalformedRecords(r) == ChunkStep(r) /\ \A i \in 1..Len(chunkLines(r)) : malformed(chunkLines(r)[i])
IncompleteRun(r) == ReadDone(r) /\ ~isComplete(runs[r])
FailureStep ==
    \/ RejectedSelection
    \/ \E r \in RunIds : \/ FailedSubmission(r)
                          \/ ReadThrow(r)
                          \/ MalformedRecord(r)
                          \/ IncompleteRun(r)
FailureStatuses == {"Error", "Translation incomplete or failed"}

\* C12 (as stated): every failure path (rejected selection, failed
\* submission, stream transport error, malformed record, incomplete run) adds
\* at least one entry to the log and sets the status to a failure status.
C12_EveryFailureLogsAndSetsStatus ==
    [][FailureStep =>
          /\ Len(dom'.log) > Len(dom.log)
          /\ dom'.status \in FailureStatuses]_vars

\* C12 (amended): every failure path adds at least one entry to the log,
\* after the entries already there; a failed submission and a transport error
\* set the status to "Error", an incomplete run sets the incomplete status
\* unless the status is "Error", and a rejected selection and a chunk of
\* malformed records leave the status as it was.
C12_EveryFailureLogged ==
    [][/\ FailureStep => (Len(dom'.log) > Len(dom.log) /\ IsPrefix(dom.log, dom'.log))
       /\ \A r \in RunIds :
             /\ (FailedSubmission(r) \/ ReadThrow(r)) => dom'.status = "Error"
             /\ IncompleteRun(r) => dom'.status \in FailureStatuses
             /\ OnlyMalformedRecords(r) => dom'.status = dom.status
       /\ RejectedSelection => dom'.status = dom.status]_vars

\* A run went on after a malformed record that was logged, the status still
\* that of a run in progress; and a selection was rejected before the run.
C12_Witness ==
    \E r \in RunIds :
        /\ runs[r].pc = "read"
        /\ \E i \in 1..Len(runs[r].handed) :
              /\ malformed(runs[r].handed[i])
              /\ \E k \in 1..Len(dom.log) : dom.log[k] = nonJsonEntry(runs[r].handed[i])
        /\ dom.status = "Translating..."
        /\ selections > 0

wellFormed(line) == JSONparse(line).ok

\* C13: the records applied by a run are the records of the body, in the
\* order of their lines: at any time those applied so far are the first
\* records of the body, none applied twice and none passed over, and when the
\* stream has ended cleanly every record of the body has been applied.
C13_RecordsAppliedInStreamOrder ==
    \A r \in RunIds :
        runs[r].pc \in {"read", "done"} =>
            LET applied == SelectSeq(runs[r].handed, wellFormed)
                sent == SelectSeq(updatesOf(runs[r].stream), wellFormed)
            IN /\ IsPrefix(applied, sent)
               /\ Ended(r) => applied = sent

\* C14: a save puts the editor's text into both the displayed summary and
\* currentSummary, and an edit seeds the editor with the displayed text,
\* whatever a run has streamed in between.
C14_SaveCommitsDraft ==
    [][/\ SaveSummaryClick =>
             /\ dom'.summaryDisplay = dom.summaryEditor
             /\ currentSummary' = dom.summaryEditor
             /\ dom'.summaryEditor = dom.summaryEditor
       /\ EditSummaryClick => dom'.summaryEditor = dom.summaryDisplay]_vars

\* The draft seeded with "ok" was saved after the run had streamed the
\* summary "v2" into the display.
C14_Witness ==
    /\ currentSummary = "ok"
    /\ dom.summaryDisplay = "ok"
    /\ dom.summaryDisplayShown
    /\ ~dom.summaryEditorShown
    /\ \E r \in RunIds : /\ Len(runs[r].handed) = 2
                          /\ runs[r].handed[2] = <<LB, Fld("summary", "v2"), RB>>

\* An export ends in failure: a non-success response, a rejected fetch or a
\* failure to read the response.
ExportFails ==
    \E i \in 1..MaxClicks :
        \/ \E res \in SideResults \ {"ok"} : ExportFetchSettled(i, res)
        \/ ExportBlobSettled(i, FALSE)
exportErrors ==
    {Str("Failed to export summary"), Str("Failed to fetch"), Str("network error")}

\* C15: the export request made by a click carries currentSummary as it is
\* at the click, whatever the editor holds, and keeps it while in flight; a
\* failed export changes nothing of the page and of currentSummary but the
\* log, which gains exactly one error entry.
C15_ExportCarriesCommittedSummary ==
    [][/\ ExportSummaryClick =>
             /\ exports' = Append(exports, [pc |-> "fetch", body |-> currentSummary])
             /\ dom' = dom
             /\ currentSummary' = currentSummary
       /\ \/ exports' = exports
          \/ exports' = Append(exports, [pc |-> "fetch", body |-> currentSummary])
          \/ \E i \in 1..Len(exports) :
                \/ exports' = Remove(exports, i)
                \/ exports' = [exports EXCEPT ![i].pc = "blob"]
       /\ ExportFails =>
             /\ currentSummary' = currentSummary
             /\ \E detail \in exportErrors :
                   dom' = [dom EXCEPT !.log =
                              Append(@, Str("Error exporting summary: ") \o detail)]]_vars

\* An export of the committed summary "ok" is in flight and another has
\* failed, while the editor is open on an unsaved draft.
C15_Witness ==
    /\ dom.summaryEditorShown
    /\ dom.summaryEditor = "draft"
    /\ currentSummary = "ok"
    /\ \E i \in 1..Len(exports) : exports[i].body = "ok"
    /\ \E k \in 1..Len(dom.log), detail \in exportErrors :
          dom.log[k] = Str("Error exporting summary: ") \o detail

\* Viewing or Editing, as the page shows it.
editMode(d) == <<d.summaryDisplayShown, d.summaryEditorShown,
                 d.editSummaryBtnShown, d.saveSummaryBtnShown>>

RunStart == \E r \in RunIds : runs[r].pc = "none" /\ runs'[r].pc = "fetch"

\* C17: a step that starts a run empties the log, leaving in it the two
\* entries of the start alone; every other step (a selection, a chunk, the
\* end or the failure of a run, a cache clearing, a download click) leaves
\* the entries there as they are and in their order, adding only at the end.
C17_LogClearedOnlyAtRunStart ==
    [][IF RunStart
       THEN dom'.log = <<Str("Starting translation process..."),
                         Str("Sending file to server...")>>
       ELSE IsPrefix(dom.log, dom'.log)]_vars

\* The second run has just started, after a first run that completed and
\* whose entries, with those of a download click, are gone.
C17_Witness ==
    /\ runs[1].outcome = "Completed"
    /\ runs[2].pc = "fetch"
    /\ clicks.download > 0
    /\ dom.log = <<Str("Starting translation process..."),
                   Str("Sending file to server...")>>

\* C18: when a run starts, the page shows nothing of an earlier run: the
\* progress, the status, the two counters, the summary and the download
\* button are those of a page on which no run has been; and a run completes
\* only with a downloadUrl it has received itself.
C18_RunStartLeavesNothingOfEarlierRun ==
    [][/\ RunStart =>
             /\ dom'.progressBar = "0"
             /\ dom'.status = "Translating..."
             /\ dom'.apiCalls = "0"
             /\ dom'.cached = "0"
             /\ dom'.summaryDisplay = ""
             /\ currentSummary' = ""
             /\ dom'.downloadBtn = <<>>
       /\ \A r \in RunIds :
             (runs[r].outcome # "Completed" /\ runs'[r].outcome = "Completed") =>
                 \E i \in 1..Len(runs[r].handed) :
                     /\ JSONparse(runs[r].handed[i]).ok
                     /\ Truthy(JSONparse(runs[r].handed[i]).obj, "downloadUrl")]_vars

\* C19: the file a run submits is the file of the most recent accepted
\* selection, made through the file input or by a drop, and never a file
\* that was rejected.
C19_SubmitsLastAcceptedSelection ==
    [][\A r \in RunIds :
          (runs[r].pc = "none" /\ runs'[r].pc = "fetch") =>
              /\ acceptedName(runs'[r].file)
              /\ lastSelection = "accepted" => runs'[r].file = dom.fileName]_vars

\* C20: there is never more than one download button; there is one only if
\* some run has completed; the button and the URL it is bound to change only
\* when a run completes, to that run's downloadUrl, so that a click navigates
\* to the downloadUrl of the run that completed last.
C20_OneDownloadButtonForLastCompleted ==
    [][/\ Len(dom'.downloadBtn) <= 1
       /\ dom'.downloadBtn # <<>> => \E r \in RunIds : runs'[r].outcome = "Completed"
       /\ (\E r \in RunIds : runs[r].outcome # "Completed" /\ runs'[r].outcome = "Completed")
             \/ dom'.downloadBtn = dom.downloadBtn
       /\ \A r \in RunIds :
             (runs[r].outcome # "Completed" /\ runs'[r].outcome = "Completed") =>
                 dom'.downloadBtn = <<runs[r].finalDownloadUrl>>
       /\ DownloadClick => location' = dom.downloadBtn[1]]_vars

\* Two runs completed, with /x and then with /y; the one button was clicked
\* and the page navigated to /y.
C20_Witness ==
    /\ runs[1].outcome = "Completed" /\ runs[1].finalDownloadUrl = "/x"
    /\ runs[2].outcome = "Completed" /\ runs[2].finalDownloadUrl = "/y"
    /\ dom.downloadBtn = <<"/y">>
    /\ location = "/y"

====
